---- MODULE Spec2Model ----
(***************************************************************************)
(* Model of recorder_node_allan_variance_analysis.py: the generator        *)
(* get_gnss_ins_sim, which pairs the simulated series by index and stamps  *)
(* each record, and gnss_ins_sim_recorder, which turns every record into   *)
(* an Imu and an Odometry message and writes both to the bag.              *)
(*                                                                         *)
(* Python floats are IEEE-754 binary64.  The record stamps are modelled    *)
(* bit-exactly (sign, exponent, 52-bit fraction, round to nearest with     *)
(* ties to even) because the properties about them are about exact         *)
(* equality.  The sensor values are integers in a fixed unit (0.01 m/s^2   *)
(* for accelerations).                                                     *)
(***************************************************************************)
EXTENDS Integers, Sequences, FiniteSets, TLC

(***************************************************************************)
(* Bounds of the model.                                                    *)
(***************************************************************************)
\* longest simulated series
MaxLen == 4

(***************************************************************************)
(* binary64 arithmetic, as far as lines 84 and 98 use it.                  *)
(* A float is [s, e, f]: s in {-1,0,1}; for s # 0 the value is             *)
(*     s * (1 + F / 2^52) * 2^e                                            *)
(* where F is the 52-bit fraction, held in f as NLimbs limbs of LimbBits   *)
(* bits, most significant first (TLC's integers have 32 bits).  Zero is    *)
(* FZero: Python's -0.0 and 0.0 compare equal and both are FZero.          *)
(***************************************************************************)
\* limbs of the fraction of a Python float: 4 * 13 = 52 bits
NLimbs == 4
LimbBits == 13

RECURSIVE Pow2(_)
Pow2(k) == IF k = 0 THEN 1 ELSE 2 * Pow2(k - 1)

Base == Pow2(LimbBits)

ZeroFrac == [k \in 1..NLimbs |-> 0]

FZero == [s |-> 0, e |-> 0, f |-> ZeroFrac]

Abs(x) == IF x < 0 THEN -x ELSE x

Sign(x) == IF x < 0 THEN -1 ELSE IF x = 0 THEN 0 ELSE 1

\* the carry into limb k - 1 when 1 is added to the fraction f
RECURSIVE IncCarry(_, _)
IncCarry(f, k) ==
    IF k > NLimbs THEN 1 ELSE (f[k] + IncCarry(f, k + 1)) \div Base

\* f + 1 as <<carry out, limbs>>
IncLimbs(f) ==
    <<IncCarry(f, 1), [k \in 1..NLimbs |-> (f[k] + IncCarry(f, k + 1)) % Base]>>

\* Round to nearest, ties to even: the exact value is
\* s * (1 + (F + r) / 2^52) * 2^e with 0 <= r < 1; guard says r >= 1/2 and
\* sticky says r is neither 0 nor 1/2.
Round(s, e, f, guard, sticky) ==
    IF ~(guard /\ (sticky \/ f[NLimbs] % 2 = 1)) THEN [s |-> s, e |-> e, f |-> f]
    ELSE IF IncCarry(f, 1) = 1 THEN [s |-> s, e |-> e + 1, f |-> ZeroFrac]
    ELSE [s |-> s, e |-> e, f |-> IncLimbs(f)[2]]

\* cnt quotient limbs of r/d (0 <= r < d), by long division
RECURSIVE DivLimbs(_, _, _)
DivLimbs(r, d, cnt) ==
    IF cnt = 0 THEN <<>>
    ELSE <<(r * Base) \div d>> \o DivLimbs((r * Base) % d, d, cnt - 1)

\* the remainder left after those cnt limbs
RECURSIVE DivRem(_, _, _)
DivRem(r, d, cnt) ==
    IF cnt = 0 THEN r ELSE DivRem((r * Base) % d, d, cnt - 1)

\* largest k with d * 2^k <= n   (n >= d > 0)
RECURSIVE ShiftUp(_, _)
ShiftUp(n, d) == IF 2 * d <= n THEN 1 + ShiftUp(n, 2 * d) ELSE 0

\* smallest k with n * 2^k >= d   (n > 0, d > 0)
RECURSIVE ShiftDown(_, _)
ShiftDown(n, d) == IF n >= d THEN 0 ELSE 1 + ShiftDown(2 * n, d)

\* The float nearest to n/d for integers n and d # 0: Python's x / y on two
\* floats that hold n and d exactly.
FDiv(n, d) ==
    IF n = 0 THEN FZero
    ELSE LET a   == Abs(n)
             b   == Abs(d)
             up  == IF a >= b THEN ShiftUp(a, b) ELSE 0
             dn  == IF a >= b THEN 0 ELSE ShiftDown(a, b)
             nn  == a * Pow2(dn)
             dd  == b * Pow2(up)
             r0  == nn - dd
             rem == DivRem(r0, dd, NLimbs)
         IN  Round(Sign(n) * Sign(d), up - dn, DivLimbs(r0, dd, NLimbs),
                   2 * rem >= dd, 2 * rem # 0 /\ 2 * rem # dd)

\* the carry into limb k - 1 when the fraction f is multiplied by i
RECURSIVE MulCarry(_, _, _)
MulCarry(f, i, k) ==
    IF k > NLimbs THEN 0 ELSE (f[k] * i + MulCarry(f, i, k + 1)) \div Base

\* limb k of f * i
MulLimb(f, i, k) == (f[k] * i + MulCarry(f, i, k + 1)) % Base

\* i * x for a natural number i and a float x: Python's int * float.
\* The exact product is (top + P / 2^52) * 2^e, where P are the limbs of
\* x.f * i and top = i + the carry out of them; it is shifted right by
\* sh = floor(log2(top)) bits and rounded.
FMulInt(i, x) ==
    IF i = 0 \/ x.s = 0 THEN FZero
    ELSE LET top  == i + MulCarry(x.f, i, 1)
             sh   == ShiftUp(top, 1)
             lost == Pow2(sh)
             out  == MulLimb(x.f, i, NLimbs) % lost
             high(k) == IF k = 1 THEN top - lost ELSE MulLimb(x.f, i, k - 1)
         IN  Round(x.s, x.e + sh,
                   [k \in 1..NLimbs |->
                       (high(k) % lost) * (Base \div lost) + MulLimb(x.f, i, k) \div lost],
                   sh > 0 /\ 2 * out >= lost,
                   sh > 0 /\ 2 * out # 0 /\ 2 * out # lost)

\* x < y
RECURSIVE LimbsLess(_, _)
LimbsLess(f, g) ==
    /\ f # <<>>
    /\ \/ f[1] < g[1]
       \/ f[1] = g[1] /\ LimbsLess(Tail(f), Tail(g))

MagLess(x, y) == x.e < y.e \/ (x.e = y.e /\ LimbsLess(x.f, y.f))

FLess(x, y) ==
    \/ x.s < y.s
    \/ x.s = 1 /\ y.s = 1 /\ MagLess(x, y)
    \/ x.s = -1 /\ y.s = -1 /\ MagLess(y, x)

FLeq(x, y) == x = y \/ FLess(x, y)

\* the next float above a positive float
FNextUp(x) ==
    IF IncCarry(x.f, 1) = 1 THEN [s |-> x.s, e |-> x.e + 1, f |-> ZeroFrac]
    ELSE [s |-> x.s, e |-> x.e, f |-> IncLimbs(x.f)[2]]

\* two floats of the same sign that are equal or adjacent
WithinOneUlp(x, y) ==
    \/ x = y
    \/ x.s = 1 /\ y.s = 1 /\ (FNextUp(x) = y \/ FNextUp(y) = x)

(***************************************************************************)
(* Inputs.  The simulator (sim.run, lines 60-74) is a black box that       *)
(* leaves four series in sim.dmgr; the model draws them from bounded sets. *)
(* Every well-formed element differs from the element at any other index,  *)
(* so that pairing by index is observable.                                 *)
(***************************************************************************)
\* sample frequencies the parameter server may hold: negative, zero, positive
FsVals == {-2, 0, 5, 100}

\* reference positions a trajectory may pass through
PosVals == {<<0, 0, 0>>, <<5, 2, -3>>}

\* element k (1-based) of the gyro, accel and attitude series
GyroAt(k) == <<100 + k, 200 + k, 300 + k>>
AccelAt(k) == <<9 + k, 19 + k, 969 + k>>
QuatAt(k) == <<k, 10 + k, 20 + k, 30 + k>>

GyroSeries(n) == [k \in 1..n |-> GyroAt(k)]
AccelSeries(n) == [k \in 1..n |-> AccelAt(k)]
QuatSeries(n) == [k \in 1..n |-> QuatAt(k)]

\* all position series of length at most n
PosSeries(n) == UNION {[1..m -> PosVals] : m \in 0..n}

\* a gyro series whose element b lacks its third component (b = 0: none does)
RaggedGyro(n, b) ==
    [k \in 1..n |-> IF k = b THEN SubSeq(GyroAt(k), 1, 2) ELSE GyroAt(k)]

\* a Python name that is not bound yet: a dictionary or message, a tuple
NoneVal == [unbound |-> TRUE]
NoneSeq == <<>>

VARIABLES
    fs_imu,         \* sample_freq_imu, the fs_imu argument
    gyro,           \* sim.dmgr.get_data_all('gyro').data[0]
    accel,          \* sim.dmgr.get_data_all('accel').data[0]
    ref_pos,        \* sim.dmgr.get_data_all('ref_pos').data
    ref_att_quat,   \* sim.dmgr.get_data_all('ref_att_quat').data
    gen_state,      \* the generator object: none, created, suspended, exhausted, failed
    gen_i,          \* number of zip elements the generator has consumed
    step_size,      \* the generator's local step_size
    emitted,        \* every record the generator has yielded, in order
    pc,             \* where gnss_ins_sim_recorder stands
    err,            \* the exception that ended the run, if any
    idx,            \* the recorder's idx flag
    origin,         \* <<x_ori, y_ori, z_ori>>
    origin_writes,  \* how often lines 161-163 have run
    measurement,    \* the loop variable
    msg_pos,        \* the Odometry message being built
    g,              \* the resolved gravity (0 until line 185 binds it)
    msg,            \* the Imu message being built
    bag             \* the messages written to the bag, in order

vars == <<fs_imu, gyro, accel, ref_pos, ref_att_quat, gen_state, gen_i,
          step_size, emitted, pc, err, idx, origin, origin_writes,
          measurement, msg_pos, g, msg, bag>>

inputs == <<fs_imu, gyro, accel, ref_pos, ref_att_quat>>
gen_vars == <<gen_state, gen_i, step_size, emitted>>
body_vars == <<idx, origin, origin_writes, msg_pos, g, msg>>

(***************************************************************************)
(* get_gnss_ins_sim                                                        *)
(***************************************************************************)
Min(a, b) == IF a <= b THEN a ELSE b

\* a zip of several series ends with the shortest of them
ZipLenShort ==
    LET n == Min(Min(Len(gyro), Len(accel)), Min(Len(ref_pos), Len(ref_att_quat)))
    IN  IF n > 0 THEN n - 1 ELSE 0

ZipLen == Min(Min(Len(gyro), Len(accel)), Min(Len(ref_pos), Len(ref_att_quat)))

\* step_size = 1.0 / fs_imu
StepSize(fs) == FDiv(1, fs)

\* 'stamp': i * step_size
StampNext(i, step) == FMulInt(i + 1, step)

Stamp(i, step) == FMulInt(i, step)

\* the subscripts of lines 101-116 all exist
Subscriptable(k) ==
    /\ Len(gyro[k]) >= 3
    /\ Len(accel[k]) >= 3
    /\ Len(ref_pos[k]) >= 3
    /\ Len(ref_att_quat[k]) >= 4

\* the dictionary of lines 97-118 for zip element k (1-based), enumerate index k-1
Record(k, step) ==
    [stamp |-> Stamp(k - 1, step),
     data  |-> [gyro_x |-> gyro[k][1], gyro_y |-> gyro[k][2], gyro_z |-> gyro[k][3],
                accel_x |-> accel[k][1], accel_y |-> accel[k][2], accel_z |-> accel[k][3],
                ref_pos_x |-> ref_pos[k][1], ref_pos_y |-> ref_pos[k][2],
                ref_pos_z |-> ref_pos[k][3],
                q0 |-> ref_att_quat[k][1], q1 |-> ref_att_quat[k][2],
                q2 |-> ref_att_quat[k][3], q3 |-> ref_att_quat[k][4]]]

(***************************************************************************)
(* gnss_ins_sim_recorder                                                   *)
(***************************************************************************)
\* the statements of the loop body, in program order
BodyOrderEager == <<"capture", "set_pose", "write_pos", "set_g", "set_imu", "write_imu">>

BodyOrder == <<"capture", "set_pose", "set_g", "set_imu", "write_imu", "write_pos">>

\* the statement after statement p; after the last one the loop asks for the
\* next record
StepAfter(p) ==
    LET k == CHOOSE j \in 1..Len(BodyOrder) : BodyOrder[j] = p
    IN  IF k < Len(BodyOrder) THEN BodyOrder[k + 1] ELSE "loop"

\* where the recorder goes when the for loop ends
ExitTargetAgain == "loop"

ExitTarget == "done"

\* if idx == 0:
OriginGuardAlways(i) == TRUE

OriginGuard(i) == i = 0

\* measurement['data']['ref_pos_*'] - *_ori
RelPosAbsolute(m, o) == <<m.data.ref_pos_x, m.data.ref_pos_y, m.data.ref_pos_z>>

RelPos(m, o) ==
    <<m.data.ref_pos_x - o[1], m.data.ref_pos_y - o[2], m.data.ref_pos_z - o[3]>>

\* timestamp_start + rospy.Duration.from_sec(stamp)
HeaderStamp(stamp) == [start |-> "timestamp_start", offset |-> stamp]

\* msg_pos.pose.pose.orientation
PoseOrientationShifted(m) ==
    [x |-> m.data.q1, y |-> m.data.q2, z |-> m.data.q3, w |-> m.data.q0]

PoseOrientation(m) ==
    [x |-> m.data.q0, y |-> m.data.q1, z |-> m.data.q2, w |-> m.data.q3]

\* msg.orientation
ImuOrientation(m) ==
    [x |-> m.data.q0, y |-> m.data.q1, z |-> m.data.q2, w |-> m.data.q3]

\* geoparams.geo_param(pos): (rm, rn, g, sl, cl, w_ie), a pure function of the
\* position; gravity is in 0.01 m/s^2 and is 9.81 m/s^2 at the origin
geo_param(pos) ==
    <<6378137, 6378137, 981 + pos[1] + 2 * pos[2] - 3 * pos[3], 0, 1, 0>>

\* msg.linear_acceleration
LinearAccelerationRaw(m, grav) == <<m.data.accel_x, m.data.accel_y, m.data.accel_z>>

LinearAcceleration(m, grav) ==
    <<m.data.accel_x, m.data.accel_y, m.data.accel_z + grav>>

TypeOK ==
    /\ fs_imu \in FsVals
    /\ gen_state \in {"none", "created", "suspended", "exhausted", "failed"}
    /\ gen_i \in 0..MaxLen
    /\ pc \in {"start", "loop", "done", "error"} \cup {BodyOrder[k] : k \in 1..Len(BodyOrder)}
    /\ err \in {"none", "ZeroDivisionError", "IndexError", "geo_param", "UnboundLocalError"}
    /\ idx \in {0, 1}
    /\ origin_writes \in 0..MaxLen
    /\ Len(emitted) <= MaxLen
    /\ Len(bag) <= 2 * MaxLen

(***************************************************************************)
(* Initial states: the node has started and nothing has run yet.           *)
(***************************************************************************)
InitRest ==
    /\ gen_state = "none"
    /\ gen_i = 0
    /\ step_size = NoneVal
    /\ emitted = <<>>
    /\ pc = "start"
    /\ err = "none"
    /\ idx = 0
    /\ origin = NoneSeq
    /\ origin_writes = 0
    /\ measurement = NoneVal
    /\ msg_pos = NoneVal
    /\ g = 0
    /\ msg = NoneVal
    /\ bag = <<>>

\* well-formed elements; the four lengths are independent
Init ==
    /\ fs_imu \in FsVals
    /\ gyro \in {GyroSeries(n) : n \in 0..MaxLen}
    /\ accel \in {AccelSeries(n) : n \in 0..MaxLen}
    /\ ref_pos \in PosSeries(MaxLen)
    /\ ref_att_quat \in {QuatSeries(n) : n \in 0..MaxLen}
    /\ InitRest

\* the series lengths the simulator promises: gyro and accel share one length,
\* ref_pos and ref_att_quat share one length
InitContract ==
    /\ fs_imu \in FsVals
    /\ \E n \in 0..MaxLen :
          /\ gyro = GyroSeries(n)
          /\ accel = AccelSeries(n)
    /\ ref_pos \in PosSeries(MaxLen)
    /\ ref_att_quat = QuatSeries(Len(ref_pos))
    /\ InitRest

\* the same, and possibly one ragged element
InitFault ==
    /\ fs_imu \in FsVals
    /\ \E n \in 0..MaxLen, b \in 0..MaxLen :
          /\ gyro = RaggedGyro(n, b)
          /\ accel = AccelSeries(n)
    /\ ref_pos \in PosSeries(MaxLen)
    /\ ref_att_quat = QuatSeries(Len(ref_pos))
    /\ InitRest

(***************************************************************************)
(* Actions.                                                                *)
(***************************************************************************)
\* lines 126-156: read the parameters, create the generator (its body does
\* not run yet), open the bag, idx = 0
Start ==
    /\ pc = "start"
    /\ gen_state' = "created"
    /\ idx' = 0
    /\ pc' = "loop"
    /\ UNCHANGED <<inputs, gen_i, step_size, emitted, err, origin, origin_writes,
                   measurement, msg_pos, g, msg, bag>>

\* the generator can run: on its first call it must pass line 84
GenRuns == gen_state = "suspended" \/ (gen_state = "created" /\ fs_imu # 0)

StepNow == IF gen_state = "created" THEN StepSize(fs_imu) ELSE step_size

\* line 158 asks for a record and the generator yields one (lines 26-118 on
\* the first call, lines 85-118 afterwards)
GenYield ==
    /\ pc = "loop"
    /\ GenRuns
    /\ gen_i < ZipLen
    /\ Subscriptable(gen_i + 1)
    /\ \E step \in {StepNow} :
          /\ step_size' = step
          /\ \E record \in {Record(gen_i + 1, step)} :
                /\ measurement' = record
                /\ emitted' = Append(emitted, record)
    /\ gen_i' = gen_i + 1
    /\ gen_state' = "suspended"
    /\ pc' = BodyOrder[1]
    /\ UNCHANGED <<inputs, err, body_vars, bag>>

\* line 84 on the first call with fs_imu = 0: ZeroDivisionError leaves the
\* generator, the loop and the with block
GenZeroDiv ==
    /\ pc = "loop"
    /\ gen_state = "created"
    /\ fs_imu = 0
    /\ gen_state' = "failed"
    /\ pc' = "error"
    /\ err' = "ZeroDivisionError"
    /\ UNCHANGED <<inputs, gen_i, step_size, emitted, measurement, body_vars, bag>>

\* the zip is used up (or the generator already ended): StopIteration ends
\* the for loop, the with block closes the bag
GenStop ==
    /\ pc = "loop"
    /\ \/ GenRuns /\ gen_i >= ZipLen
       \/ gen_state \in {"exhausted", "failed"}
    /\ step_size' = IF gen_state = "created" THEN StepSize(fs_imu) ELSE step_size
    /\ gen_state' = IF gen_state = "failed" THEN "failed" ELSE "exhausted"
    /\ pc' = ExitTarget
    /\ UNCHANGED <<inputs, gen_i, emitted, err, measurement, body_vars, bag>>

\* lines 101-116 subscript an element that is too short: IndexError
GenIndexError ==
    /\ pc = "loop"
    /\ GenRuns
    /\ gen_i < ZipLen
    /\ ~Subscriptable(gen_i + 1)
    /\ step_size' = StepNow
    /\ gen_state' = "failed"
    /\ pc' = "error"
    /\ err' = "IndexError"
    /\ UNCHANGED <<inputs, gen_i, emitted, measurement, body_vars, bag>>

\* lines 160-164
CheckOrigin ==
    /\ pc = "capture"
    /\ IF OriginGuard(idx)
       THEN /\ origin' = <<measurement.data.ref_pos_x, measurement.data.ref_pos_y,
                           measurement.data.ref_pos_z>>
            /\ origin_writes' = origin_writes + 1
            /\ idx' = 1
       ELSE UNCHANGED <<origin, origin_writes, idx>>
    /\ pc' = StepAfter("capture")
    /\ UNCHANGED <<inputs, gen_vars, err, measurement, msg_pos, g, msg, bag>>

\* lines 167-177; reading an unbound x_ori is an UnboundLocalError
SetPose ==
    /\ pc = "set_pose"
    /\ IF origin = NoneSeq
       THEN /\ pc' = "error"
            /\ err' = "UnboundLocalError"
            /\ UNCHANGED msg_pos
       ELSE /\ msg_pos' = [header |-> [stamp |-> HeaderStamp(measurement.stamp),
                                       frame_id |-> "inertial"],
                           child_frame_id |-> "inertial",
                           position |-> RelPos(measurement, origin),
                           orientation |-> PoseOrientation(measurement)]
            /\ pc' = StepAfter("set_pose")
            /\ UNCHANGED err
    /\ UNCHANGED <<inputs, gen_vars, idx, origin, origin_writes, measurement, g, msg, bag>>

\* lines 179-185
SetG ==
    /\ pc = "set_g"
    /\ g' = geo_param(RelPos(measurement, origin))[3]
    /\ pc' = StepAfter("set_g")
    /\ UNCHANGED <<inputs, gen_vars, err, idx, origin, origin_writes, measurement,
                   msg_pos, msg, bag>>

\* line 184 when the resolver raises instead of returning
GeoParamRaises ==
    /\ pc = "set_g"
    /\ pc' = "error"
    /\ err' = "geo_param"
    /\ UNCHANGED <<inputs, gen_vars, body_vars, measurement, bag>>

\* lines 187-203
SetImu ==
    /\ pc = "set_imu"
    /\ msg' = [header |-> [frame_id |-> "ENU",
                           stamp |-> HeaderStamp(measurement.stamp)],
               orientation |-> ImuOrientation(measurement),
               angular_velocity |-> <<measurement.data.gyro_x, measurement.data.gyro_y,
                                      measurement.data.gyro_z>>,
               linear_acceleration |-> LinearAcceleration(measurement, g)]
    /\ pc' = StepAfter("set_imu")
    /\ UNCHANGED <<inputs, gen_vars, err, idx, origin, origin_writes, measurement,
                   msg_pos, g, bag>>

\* line 206
WriteImu ==
    /\ pc = "write_imu"
    /\ bag' = Append(bag, [topic |-> "topic_name_imu", msg |-> msg, t |-> msg.header.stamp])
    /\ pc' = StepAfter("write_imu")
    /\ UNCHANGED <<inputs, gen_vars, err, body_vars, measurement>>

\* line 207
WritePos ==
    /\ pc = "write_pos"
    /\ bag' = Append(bag, [topic |-> "topic_name_pos", msg |-> msg_pos,
                           t |-> msg_pos.header.stamp])
    /\ pc' = StepAfter("write_pos")
    /\ UNCHANGED <<inputs, gen_vars, err, body_vars, measurement>>

Next ==
    \/ Start
    \/ GenYield
    \/ GenZeroDiv
    \/ GenStop
    \/ CheckOrigin
    \/ SetPose
    \/ SetG
    \/ SetImu
    \/ WriteImu
    \/ WritePos

NextFault ==
    \/ Next
    \/ GenIndexError
    \/ GeoParamRaises

\* the program as it runs on well-formed simulator output
Spec == Init /\ [][Next]_vars

\* the same with the failures a record's computation can meet: a ragged
\* element, a resolver that raises
SpecFault == InitFault /\ [][NextFault]_vars

\* the recorder is one thread that runs until it returns or raises
FairSpec == InitContract /\ [][Next]_vars /\ WF_vars(Next)

(***************************************************************************)
(* Properties.                                                             *)
(***************************************************************************)
\* the record index (1-based) of bag entry j, two entries per record
RecordOf(j) == (j + 1) \div 2

Vec3(a, b) == <<a[1] - b[1], a[2] - b[2], a[3] - b[3]>>

ContractLengths == Len(gyro) = Len(accel) /\ Len(ref_pos) = Len(ref_att_quat)

\* C1: when gyro and accel share a length and ref_pos and ref_att_quat share a
\* length, the generator yields exactly min(len(gyro), len(ref_pos)) records
\* before it is exhausted, and record i is built from element i of every series.
C1_TruncatesAndPairsByIndex ==
    /\ \A k \in 1..Len(emitted) :
          LET d == emitted[k].data
          IN  /\ <<d.gyro_x, d.gyro_y, d.gyro_z>> = gyro[k]
              /\ <<d.accel_x, d.accel_y, d.accel_z>> = accel[k]
              /\ <<d.ref_pos_x, d.ref_pos_y, d.ref_pos_z>> = ref_pos[k]
              /\ <<d.q0, d.q1, d.q2, d.q3>> = ref_att_quat[k]
    /\ ContractLengths => Len(emitted) <= Min(Len(gyro), Len(ref_pos))
    /\ (ContractLengths /\ gen_state = "exhausted")
          => Len(emitted) = Min(Len(gyro), Len(ref_pos))

\* the IMU series is longer than the position series and the run is over
C1_Witness ==
    /\ ContractLengths
    /\ gen_state = "exhausted"
    /\ Len(gyro) = 4
    /\ Len(ref_pos) = 2
    /\ Len(emitted) = 2

\* C2 as claimed: for positive fs_imu the stamp of record i is exactly the
\* float i / fs_imu.
C2_StampIsQuotient ==
    fs_imu > 0 =>
        \A k \in 1..Len(emitted) : emitted[k].stamp = FDiv(k - 1, fs_imu)

\* C2 as amended: for positive fs_imu the stamp of record i is the float
\* product i * (1.0 / fs_imu), computed from the index; it is 0 for the first
\* record, strictly increasing, and equal to the float i / fs_imu or adjacent
\* to it; two samples at fs_imu = 100 are stamped 0.0 and 0.01 exactly.
C2_StampIsIndexTimesStep ==
    fs_imu > 0 =>
        \A k \in 1..Len(emitted) :
            /\ emitted[k].stamp = FMulInt(k - 1, FDiv(1, fs_imu))
            /\ WithinOneUlp(emitted[k].stamp, FDiv(k - 1, fs_imu))
            /\ k = 1 => emitted[k].stamp = FZero
            /\ k > 1 => FLess(emitted[k - 1].stamp, emitted[k].stamp)
            /\ (fs_imu = 100 /\ k <= 2) => emitted[k].stamp = FDiv(k - 1, 100)

\* a stamp that is not the float i / fs_imu has been emitted
C2_Witness ==
    /\ fs_imu > 0
    /\ Len(emitted) >= 4
    /\ emitted[4].stamp # FDiv(3, fs_imu)
    /\ emitted[4].stamp = FMulInt(3, step_size)

\* C3: the position of the pose message written for record i is
\* ref_pos[i] - ref_pos[0], component by component; the first one is zero.
C3_PoseIsOriginRelative ==
    \A j \in 1..Len(bag) :
        bag[j].topic = "topic_name_pos" =>
            /\ bag[j].msg.position = Vec3(ref_pos[RecordOf(j)], ref_pos[1])
            /\ RecordOf(j) = 1 => bag[j].msg.position = <<0, 0, 0>>

\* a trajectory that starts away from zero and has moved by its second record
C3_Witness ==
    /\ Len(bag) >= 4
    /\ ref_pos[1] # <<0, 0, 0>>
    /\ bag[2].msg.position = <<0, 0, 0>>
    /\ bag[4].msg.position # <<0, 0, 0>>

\* C4: the linear acceleration of the Imu message written for a record has
\* the raw accel x and y, and the raw accel z plus the gravity geo_param
\* returns for that record's origin-relative position.
C4_GravityOnVerticalAxisOnly ==
    \A j \in 1..Len(bag) :
        bag[j].topic = "topic_name_imu" =>
            LET k == RecordOf(j)
                a == accel[k]
            IN  bag[j].msg.linear_acceleration =
                    <<a[1], a[2], a[3] + geo_param(Vec3(ref_pos[k], ref_pos[1]))[3]>>

\* raw (0.1, 0.2, 9.7) with gravity 9.81 was written as (0.1, 0.2, 19.51), and
\* a later record away from the origin got another gravity
C4_Witness ==
    /\ Len(bag) >= 3
    /\ accel[1] = <<10, 20, 970>>
    /\ bag[1].msg.linear_acceleration = <<10, 20, 1951>>
    /\ ref_pos[2] # ref_pos[1]
    /\ bag[3].msg.linear_acceleration[3] # accel[2][3] + 981

SameQuat(o, q) == o.x = q[1] /\ o.y = q[2] /\ o.z = q[3] /\ o.w = q[4]

\* C5: with fs_imu > 0 the bag holds, for every processed record, one Imu
\* message on the IMU topic followed by one Odometry message on the position
\* topic, both stamped timestamp_start + the record's stamp and both carrying
\* the record's attitude quaternion; between records the bag holds exactly two
\* messages per record, and the stamps never decrease in write order.
C5_TwoEntitiesPerRecord ==
    fs_imu > 0 =>
        /\ \A k \in 1..(Len(bag) \div 2) :
              LET imu == bag[2 * k - 1]
                  pos == bag[2 * k]
              IN  /\ imu.topic = "topic_name_imu"
                  /\ pos.topic = "topic_name_pos"
                  /\ imu.t = HeaderStamp(emitted[k].stamp)
                  /\ pos.t = imu.t
                  /\ imu.msg.header.stamp = imu.t
                  /\ pos.msg.header.stamp = pos.t
                  /\ SameQuat(imu.msg.orientation, ref_att_quat[k])
                  /\ pos.msg.orientation = imu.msg.orientation
        /\ pc \in {"loop", "done"} => Len(bag) = 2 * Len(emitted)
        /\ \A j \in 2..Len(bag) : FLeq(bag[j - 1].t.offset, bag[j].t.offset)

\* three records have been written
C5_Witness ==
    /\ fs_imu > 0
    /\ pc = "loop"
    /\ Len(emitted) = 3
    /\ Len(bag) = 6

AnySeriesEmpty ==
    Len(gyro) = 0 \/ Len(accel) = 0 \/ Len(ref_pos) = 0 \/ Len(ref_att_quat) = 0

\* C6 as claimed: with fs_imu <= 0 the run ends in an error, no record is
\* emitted and nothing is written to the bag.  Stated for simulator output
\* without an empty series, so that only the frequency is at fault.
C6_NonPositiveFsFailsFast ==
    (fs_imu <= 0 /\ ~AnySeriesEmpty) =>
        (emitted = <<>> /\ bag = <<>> /\ pc # "done")

\* C7 as claimed: with an empty series the run ends in an error instead of
\* completing normally, and no record is emitted.  Stated for a positive
\* fs_imu, so that only the empty series is at fault.
C7_EmptySeriesFailsFast ==
    (fs_imu > 0 /\ AnySeriesEmpty) => (emitted = <<>> /\ pc # "done")

InBody == pc \in {BodyOrder[k] : k \in 1..Len(BodyOrder)}

\* C8: the origin is assigned exactly once per run, while the first record is
\* processed and before anything reads it, and from then on it is the first
\* record's reference position whatever the later records hold.
C8_OriginCapturedOnce ==
    /\ origin_writes <= 1
    /\ origin_writes = 0 <=> origin = NoneSeq
    /\ origin_writes = 1 <=> (Len(emitted) >= 1 /\ ~(Len(emitted) = 1 /\ pc = "capture"))
    /\ origin # NoneSeq =>
          origin = <<emitted[1].data.ref_pos_x, emitted[1].data.ref_pos_y,
                     emitted[1].data.ref_pos_z>>
    /\ (InBody /\ pc # "capture") => origin # NoneSeq
    /\ err # "UnboundLocalError"

\* the third record lies somewhere else than the first and the origin stayed
C8_Witness ==
    /\ Len(emitted) >= 3
    /\ pc = "write_pos"
    /\ origin_writes = 1
    /\ origin # <<measurement.data.ref_pos_x, measurement.data.ref_pos_y,
                  measurement.data.ref_pos_z>>
    /\ ref_pos[2] # ref_pos[1]

\* both messages of the current record are complete
Built ==
    /\ msg # NoneVal
    /\ msg_pos # NoneVal
    /\ origin # NoneSeq
    /\ msg.header.stamp = HeaderStamp(measurement.stamp)
    /\ msg_pos.header.stamp = HeaderStamp(measurement.stamp)
    /\ msg_pos.position = RelPos(measurement, origin)
    /\ msg_pos.orientation = PoseOrientation(measurement)
    /\ msg.orientation = ImuOrientation(measurement)
    /\ msg.angular_velocity = <<measurement.data.gyro_x, measurement.data.gyro_y,
                                measurement.data.gyro_z>>
    /\ msg.linear_acceleration =
          LinearAcceleration(measurement, geo_param(msg_pos.position)[3])

\* the number of records whose computation was complete when the run failed
Completed == IF err = "geo_param" THEN Len(emitted) - 1 ELSE Len(emitted)

\* C9: every field of both messages of a record, gravity included, is
\* computed before either message is written, so when the computation of
\* record i fails the bag holds the complete pairs of records 0..i-1 and
\* nothing of record i.
C9_RecordIsAtomic ==
    /\ [][bag' # bag => Built]_vars
    /\ [](pc = "error" =>
            /\ Len(bag) = 2 * Completed
            /\ \A k \in 1..Completed :
                  /\ bag[2 * k - 1].topic = "topic_name_imu"
                  /\ bag[2 * k - 1].t = HeaderStamp(emitted[k].stamp)
                  /\ bag[2 * k].topic = "topic_name_pos"
                  /\ bag[2 * k].t = HeaderStamp(emitted[k].stamp))

\* the resolver raised on the third record, two complete pairs are in the bag
C9_Witness ==
    /\ pc = "error"
    /\ err = "geo_param"
    /\ Len(emitted) = 3
    /\ Len(bag) = 4

\* the run is over: with fs_imu = 0 by the error of line 84, otherwise with
\* the generator exhausted after the shortest series
Finished ==
    \/ fs_imu = 0 /\ pc = "error"
    \/ fs_imu # 0 /\ pc = "done" /\ gen_state = "exhausted" /\ Len(emitted) = ZipLen

\* C10: the recorder's loop ends once the generator is exhausted at the
\* length of the shortest series, and an exhausted generator stays exhausted
\* and yields nothing more.
C10_FiniteSinglePass ==
    /\ <>Finished
    /\ [][gen_state = "exhausted" =>
            (gen_state' = "exhausted" /\ emitted' = emitted /\ bag' = bag)]_vars

\* a run of several records has ended
C10_Witness ==
    /\ pc = "done"
    /\ gen_state = "exhausted"
    /\ Len(emitted) = 3
    /\ Len(bag) = 6

====
